---- MODULE Spec2Model ----
(***************************************************************************)
(* A model of process-queue.ts, the booking queue processor.               *)
(*                                                                         *)
(* Dates are the program's "YYYY-MM-DD" strings, written <<y, m, d>>; the  *)
(* JavaScript string comparisons on them are lexicographic comparisons of  *)
(* the triples.  Date objects are day numbers since 1970-01-01; the host   *)
(* zone is UTC, as on the runner of the workflow, so setDate(getDate()+n)  *)
(* adds n whole days.                                                      *)
(*                                                                         *)
(* Requests are objects shared by reference between the queue and the list *)
(* of today's requests: req is the heap (id -> object) and the collections *)
(* are sequences of ids.  file is the persisted booking-queue.json.        *)
(***************************************************************************)
EXTENDS Integers, Sequences, FiniteSets, TLC

VARIABLES
    pc,                 \* position of main
    today,              \* getTodayDate()
    takeScreenshots,    \* configuration: TAKE_SCREENSHOTS !== "false"
    file,               \* booking-queue.json: the two collections, by value
    startFile,          \* booking-queue.json as it was when the run started
    req,                \* the request objects parsed from the file
    bookingRequests,    \* queueData.bookingRequests (ids)
    processedRequests,  \* queueData.processedRequests (ids)
    todayRequests,      \* the list returned by filterTodayRequests (ids)
    i,                  \* loop index of main (1-based)
    processedCount,     \* main's processedCount
    outputs,            \* what setOutput wrote: processed_count, or "unset"
    hist,               \* per request: the handler chosen, whether it returned
    cur,                \* what happened to the request being processed
    bk,                 \* attemptBooking's locals and its bookSlot call log
    bsEnv,              \* collaborator outcomes of the last bookSlot call
    cls,                \* checkPageState: a snapshot, the target date, the result
    run,                \* main: logins, Time Gate waits, requests started
    disc,               \* a payload or rendered rows, a time window, the result
    cap,                \* navigateAndCaptureApiResponse: promise, timer, handlers
    pol,                \* a retry policy: its loop counter and last cycle
    slp                 \* sleepUntilTimeInZone: the clock, the promise, the timer

vars == <<pc, today, takeScreenshots, file, startFile, req, bookingRequests,
          processedRequests, todayRequests, i, processedCount, outputs,
          hist, cur, bk, bsEnv, cls, run, disc, cap, pol, slp>>

(***************************************************************************)
(* Bounds of the model.                                                    *)
(***************************************************************************)
MaxPending == 2         \* pending-collection length in a run
MaxFilterLen == 3       \* pending-collection length when the filter is checked
MaxSlots == 3           \* candidate slots handed to attemptBooking
MaxRunSlots == 2        \* candidate slots a retry policy returns in a run

(***************************************************************************)
(* Calendar: new Date("YYYY-MM-DD"), setDate, toISOString under a UTC host *)
(***************************************************************************)
IsLeap(y) == (y % 4 = 0 /\ y % 100 # 0) \/ y % 400 = 0

DaysInMonth(y, m) ==
    IF m = 2 THEN (IF IsLeap(y) THEN 29 ELSE 28)
    ELSE IF m \in {4, 6, 9, 11} THEN 30 ELSE 31

LeapsBefore(y) == ((y - 1) \div 4) - ((y - 1) \div 100) + ((y - 1) \div 400)

DaysBeforeYear(y) == 365 * (y - 1970) + LeapsBefore(y) - LeapsBefore(1970)

RECURSIVE DaysBeforeMonth(_, _)
DaysBeforeMonth(y, m) ==
    IF m = 1 THEN 0 ELSE DaysBeforeMonth(y, m - 1) + DaysInMonth(y, m - 1)

\* new Date("YYYY-MM-DD"): the day number of a date string
ParseDate(s) == DaysBeforeYear(s[1]) + DaysBeforeMonth(s[1], s[2]) + (s[3] - 1)

\* toISOString().split("T")[0]: the date string of a day number
IsoDate(n) ==
    LET y == CHOOSE yy \in (1970 + n \div 366)..(1970 + n \div 365) :
                 DaysBeforeYear(yy) <= n /\ n < DaysBeforeYear(yy + 1)
        r == n - DaysBeforeYear(y)
        m == CHOOSE mm \in 1..12 :
                 DaysBeforeMonth(y, mm) <= r
                 /\ r < DaysBeforeMonth(y, mm) + DaysInMonth(y, mm)
    IN  <<y, m, r - DaysBeforeMonth(y, m) + 1>>

\* d = new Date(s); d.setDate(d.getDate() + n); d.toISOString().split("T")[0]
AddDays(s, n) == IsoDate(ParseDate(s) + n)

\* a <= b and a < b on "YYYY-MM-DD" strings (code-unit order, field by field)
StrLE(a, b) ==
    \/ a[1] < b[1]
    \/ a[1] = b[1] /\ a[2] < b[2]
    \/ a[1] = b[1] /\ a[2] = b[2] /\ a[3] <= b[3]

StrLT(a, b) == StrLE(a, b) /\ a # b

(***************************************************************************)
(* filterTodayRequests                                                     *)
(***************************************************************************)
FarHorizonDays == 21
NearHorizonDays == 3

thirtyDaysString(t) == AddDays(t, FarHorizonDays)
threeDaysString(t) == AddDays(t, NearHorizonDays)

\* a near-horizon window that leaves out its last day
isWithin3DaysExclusive(playDate, t) ==
    StrLE(t, playDate) /\ StrLT(playDate, AddDays(t, NearHorizonDays))

isWithin3Days(playDate, t) ==
    StrLE(t, playDate) /\ StrLE(playDate, threeDaysString(t))

\* the predicate of bookingRequests.filter(...)
IsEligible(r, t) ==
    /\ r.status = "pending"
    /\ (r.playDate = thirtyDaysString(t) \/ isWithin3Days(r.playDate, t))

RECURSIVE FilterSeq(_, _, _)
FilterSeq(ids, heap, t) ==
    IF ids = <<>> THEN <<>>
    ELSE LET rest == FilterSeq(Tail(ids), heap, t)
         IN  IF IsEligible(heap[Head(ids)], t) THEN <<Head(ids)>> \o rest
             ELSE rest

\* a comparator that also puts a first when the play dates are equal
ComesBeforeOrEqual(a, b) == StrLE(b.playDate, a.playDate)

\* the comparator (a, b) => b.playDate.localeCompare(a.playDate): negative
\* (a first) iff b.playDate < a.playDate
ComesBefore(a, b) == StrLT(b.playDate, a.playDate)

\* Array.prototype.sort is stable: x goes behind every element that does not
\* have to come after it
RECURSIVE InsertSorted(_, _, _)
InsertSorted(x, sorted, heap) ==
    IF sorted = <<>> THEN <<x>>
    ELSE IF ComesBefore(heap[x], heap[Head(sorted)]) THEN <<x>> \o sorted
         ELSE <<Head(sorted)>> \o InsertSorted(x, Tail(sorted), heap)

RECURSIVE SortByPlayDateDesc(_, _)
SortByPlayDateDesc(ids, heap) ==
    IF ids = <<>> THEN <<>>
    ELSE InsertSorted(ids[Len(ids)],
                      SortByPlayDateDesc(SubSeq(ids, 1, Len(ids) - 1), heap),
                      heap)

filterTodayRequests(ids, heap, t) ==
    SortByPlayDateDesc(FilterSeq(ids, heap, t), heap)

\* a call that sorts the array of the pending collection itself
filterCallSortInPlace(ids, heap, t) ==
    [ selected |-> filterTodayRequests(ids, heap, t),
      pending |-> SortByPlayDateDesc(ids, heap) ]

\* a call: the list it returns, and the array of the pending collection as the
\* call leaves it (filter makes a new array, and sort orders that one)
filterCall(ids, heap, t) ==
    [ selected |-> filterTodayRequests(ids, heap, t), pending |-> ids ]

(***************************************************************************)
(* bookSlot                                                                *)
(***************************************************************************)
\* What the page does during one bookSlot call.  Each interaction the call
\* performs either completes ("ok") or throws; an interaction the call does
\* not get to is "skipped".  race is the indicator that settles first.
Interaction == {"ok", "throw", "skipped"}

BookEnvFields ==
    [ loader : {"ok", "throw"},         \* wait for div.loader-wpr hidden, 5 s
      click : {"ok", "throw"},          \* frame.click, 10 s
      forceClick : Interaction,         \* frame.click force, after a failed click
      race : {"locked", "form", "timeout", "skipped"},
      close : Interaction,              \* CLOSE on the locked modal
      buddies : Interaction,            \* ADD BUDDIES & GROUPS
      group : Interaction,              \* Test group (n people)
      bookNow : Interaction,            \* BOOK NOW
      idle : Interaction,               \* waitForLoadState networkidle, 5 s
      confirmed : Interaction ]         \* waitForSelector Booking Confirmed, 15 s

\* the interactions performed are those the control flow of bookSlot reaches
Performed(e) ==
    /\ (e.forceClick = "skipped") <=> (e.click = "ok")
    /\ (e.race = "skipped") <=> (e.click = "throw" /\ e.forceClick = "throw")
    /\ (e.close = "skipped") <=> (e.race # "locked")
    /\ (e.buddies = "skipped") <=> (e.race # "form")
    /\ (e.group = "skipped") <=> (e.buddies # "ok")
    /\ (e.bookNow = "skipped") <=> (e.group # "ok")
    /\ (e.idle = "skipped") <=> (e.bookNow # "ok")
    /\ (e.confirmed = "skipped") <=> (e.idle # "ok")

BookEnv == {e \in BookEnvFields : Performed(e)}

NoEnv ==
    [ loader |-> "none", click |-> "none", forceClick |-> "none", race |-> "none",
      close |-> "none", buddies |-> "none", group |-> "none", bookNow |-> "none",
      idle |-> "none", confirmed |-> "none" ]

\* a bookSlot that does not wait for the confirmation signal
bookSlotNoConfirm(e) ==
    IF e.click = "throw" /\ e.forceClick = "throw" THEN "error"
    ELSE IF e.race = "locked" THEN "locked"
    ELSE IF e.race # "form" THEN "error"
    ELSE IF e.buddies = "throw" THEN "error"
    ELSE IF e.group = "throw" THEN "error"
    ELSE IF e.bookNow = "throw" THEN "error"
    ELSE "success"

bookSlot(e) ==
    IF e.click = "throw" /\ e.forceClick = "throw" THEN "error"
    ELSE IF e.race = "locked" THEN "locked"
    ELSE IF e.race # "form" THEN "error"
    ELSE IF e.buddies = "throw" THEN "error"
    ELSE IF e.group = "throw" THEN "error"
    ELSE IF e.bookNow = "throw" THEN "error"
    ELSE IF e.idle = "throw" THEN "error"
    ELSE IF e.confirmed = "throw" THEN "error"
    ELSE "success"

\* an interaction of this call threw and bookSlot swallowed the exception
bookSlotCaught(e) ==
    \/ e.race = "timeout"
    \/ \E f \in {"loader", "click", "forceClick", "close", "buddies", "group",
                 "bookNow", "idle", "confirmed"} : e[f] = "throw"

(***************************************************************************)
(* attemptBooking                                                          *)
(***************************************************************************)
NoSlot == [time |-> "none", id |-> -1]

\* the list findAvailableSlots hands over: n slots, latest time first
SlotTimes == <<"11:45", "10:30", "09:15", "08:00", "07:30">>
SlotList(n) == [k \in 1..n |-> [time |-> SlotTimes[k], id |-> k - 1]]

\* let bookedSlot = null; let lastError = "Unknown error"
attemptBookingInit(slots) ==
    [ slots |-> slots, k |-> 1, bookedSlot |-> NoSlot,
      lastError |-> "Unknown error", broke |-> FALSE,
      calls |-> <<>>, results |-> <<>> ]

NoBooking == attemptBookingInit(<<>>)

\* the for-of loop has a next iteration
attemptBookingMore(b) == ~b.broke /\ b.k <= Len(b.slots)

\* an iteration that gives up at the first locked slot
attemptBookingIterStopOnLocked(b, result) ==
    LET slot == b.slots[b.k]
        c == [b EXCEPT !.calls = Append(@, slot.id),
                       !.results = Append(@, result)]
    IN  IF result = "success"
        THEN [c EXCEPT !.bookedSlot = slot, !.broke = TRUE]
        ELSE IF result = "locked"
        THEN [c EXCEPT !.lastError = "Time slot locked by another user",
                       !.broke = TRUE]
        ELSE [c EXCEPT !.lastError = "Failed to complete booking",
                       !.k = @ + 1]

\* an iteration that tries the same slot again after an error
attemptBookingIterRetry(b, result) ==
    LET slot == b.slots[b.k]
        c == [b EXCEPT !.calls = Append(@, slot.id),
                       !.results = Append(@, result)]
    IN  IF result = "success"
        THEN [c EXCEPT !.bookedSlot = slot, !.broke = TRUE]
        ELSE IF result = "locked"
        THEN [c EXCEPT !.lastError = "Time slot locked by another user",
                       !.k = @ + 1]
        ELSE [c EXCEPT !.lastError = "Failed to complete booking"]

\* one iteration of the loop, bookSlot having returned result
attemptBookingIter(b, result) ==
    LET slot == b.slots[b.k]
        c == [b EXCEPT !.calls = Append(@, slot.id),
                       !.results = Append(@, result)]
    IN  IF result = "success"
        THEN [c EXCEPT !.bookedSlot = slot, !.broke = TRUE]
        ELSE IF result = "locked"
        THEN [c EXCEPT !.lastError = "Time slot locked by another user",
                       !.k = @ + 1]
        ELSE [c EXCEPT !.lastError = "Failed to complete booking",
                       !.k = @ + 1]

(***************************************************************************)
(* checkPageState                                                          *)
(***************************************************************************)
MonthNames == <<"January", "February", "March", "April", "May", "June", "July",
                "August", "September", "October", "November", "December">>

\* new Date(playDate).toLocaleString("en-US", {month: "long", day: "numeric",
\* year: "numeric"}), e.g. <<"June", 15, 2025>> for "June 15, 2025"
datePattern(playDate) ==
    LET s == IsoDate(ParseDate(playDate))
    IN  <<MonthNames[s[2]], s[3], s[1]>>

\* a classifier that looks for the no-results text first
checkPageStateNoResultsFirst(snap, playDate) ==
    IF snap.textThrows THEN "loading"
    ELSE IF snap.noResults THEN "no-results"
    ELSE IF datePattern(playDate) \in snap.tooEarly THEN "too-early"
    ELSE IF snap.slotsThrows THEN "loading"
    ELSE IF snap.slotCount > 0 THEN "ready"
    ELSE "loading"

\* A snapshot of the frame: textThrows / slotsThrows say that the evaluate
\* call failed; tooEarly is the set of dates D for which the text holds
\* "will become available on D at 7:00 AM"; noResults says the text holds
\* "Your search returned no times to be displayed"; slotCount counts the
\* div.time elements.
checkPageState(snap, playDate) ==
    IF snap.textThrows THEN "loading"
    ELSE IF datePattern(playDate) \in snap.tooEarly THEN "too-early"
    ELSE IF snap.noResults THEN "no-results"
    ELSE IF snap.slotsThrows THEN "loading"
    ELSE IF snap.slotCount > 0 THEN "ready"
    ELSE "loading"

(***************************************************************************)
(* The queue file and the request objects                                  *)
(***************************************************************************)
Request(id, playDate, status) ==
    [ id |-> id, playDate |-> playDate, status |-> status,
      failureReason |-> IF status = "failed" THEN "No available times" ELSE "none",
      bookedTime |-> IF status = "success" THEN "08:00" ELSE "none" ]

\* an entry of the processed collection left by an earlier run
OldRequest(t) == Request(0, AddDays(t, -10), "success")

\* the queue file whose pending collection has n entries, the k-th with id k,
\* its play date f[k][1] days from t and its status f[k][2]
QueueFile(t, n, f, old) ==
    [ bookingRequests |->
          [k \in 1..n |-> Request(k, AddDays(t, f[k][1]), f[k][2])],
      processedRequests |-> old ]

IdsOf(records) == [k \in 1..Len(records) |-> records[k].id]

\* JSON.parse of the file: one object per entry
HeapOf(f) ==
    LET all == f.bookingRequests \o f.processedRequests
    IN  [id \in {all[k].id : k \in 1..Len(all)} |->
            (CHOOSE r \in {all[k] : k \in 1..Len(all)} : r.id = id)]

\* what the run did with a request
NoHist ==
    [ policy |-> "none",      \* the handler processRequest chose
      returned |-> FALSE ]    \* processRequest returned to main

\* what happened while the current request was processed
NoCur ==
    [ writes |-> 0,           \* assignments to request.status
      thrown |-> "none",      \* the message of the exception the handler caught
      caught |-> FALSE,       \* bookSlot swallowed an exception
      pre |-> "none",         \* what the collaborators did before the candidates
      retry |-> FALSE,        \* a retry policy was run
      shots |-> 0 ]           \* page.screenshot calls

\* messages of the exceptions the collaborators throw
FrameMsgs == {"Booking iframe not found"}
ShotMsgs == {"page.screenshot: Timeout exceeded"}

\* main has not logged in, waited or started a request
NoRun == [logins |-> 0, gates |-> 0, started |-> << >>]

\* the parts modelled on their own are not in use
NoDisc == [fn |-> "none"]
NoCap == [phase |-> "none"]
NoPol == [kind |-> "none"]
NoSlp == [phase |-> "none"]

NoCls == [snap |-> "none", playDate |-> "none", result |-> "none"]

\* a run about to start on a queue file with at most maxLen entries in the
\* pending collection, each a <<days from today, status>> of kinds
InitWith(todays, kinds, maxLen, shots, withOld) ==
    /\ pc = "start"
    /\ today \in todays
    /\ takeScreenshots \in shots
    /\ \E n \in 0..maxLen : \E f \in [1..n -> kinds] :
          \E old \in {<<>>} \cup {<<OldRequest(today)>> : x \in withOld} :
             file = QueueFile(today, n, f, old)
    /\ startFile = file
    /\ req = << >>
    /\ bookingRequests = << >>
    /\ processedRequests = << >>
    /\ todayRequests = << >>
    /\ i = 0
    /\ processedCount = 0
    /\ outputs = "unset"
    /\ hist = << >>
    /\ cur = NoCur
    /\ bk = NoBooking
    /\ bsEnv = NoEnv
    /\ cls = NoCls
    /\ run = NoRun
    /\ disc = NoDisc
    /\ cap = NoCap
    /\ pol = NoPol
    /\ slp = NoSlp

RunToday == <<2025, 6, 10>>
RunKinds ==
    { <<1, "pending">>, <<FarHorizonDays, "pending">>, <<5, "pending">>,
      <<1, "failed">> }

Init == InitWith({RunToday}, RunKinds, MaxPending, BOOLEAN, {TRUE})

(***************************************************************************)
(* main                                                                    *)
(***************************************************************************)
\* a start that logs in whether or not a request is due
MainStartLoginAnyway ==
    /\ pc = "start"
    /\ req' = HeapOf(file)
    /\ processedRequests' = IdsOf(file.processedRequests)
    /\ LET call == filterCall(IdsOf(file.bookingRequests), req', today)
       IN  /\ bookingRequests' = call.pending
           /\ todayRequests' = call.selected
    /\ hist' = [id \in DOMAIN req' |-> NoHist]
    /\ pc' = "login"
    /\ UNCHANGED <<run, disc, cap, pol, slp, today, takeScreenshots, startFile,
                   file, i, processedCount, cur, bk, bsEnv, cls, outputs>>

\* initializeQueue, filterTodayRequests, and the return when nothing is due
MainStart ==
    /\ pc = "start"
    /\ req' = HeapOf(file)
    /\ processedRequests' = IdsOf(file.processedRequests)
    /\ LET call == filterCall(IdsOf(file.bookingRequests), req', today)
       IN  /\ bookingRequests' = call.pending
           /\ todayRequests' = call.selected
    /\ hist' = [id \in DOMAIN req' |-> NoHist]
    /\ IF todayRequests' = << >>
       THEN pc' = "done" /\ outputs' = 0
       ELSE pc' = "login" /\ outputs' = outputs
    /\ UNCHANGED <<run, disc, cap, pol, slp, today, takeScreenshots, startFile, file, i, processedCount, cur, bk,
                   bsEnv, cls>>

\* chromium.launch .. performInitialLogin; a throw closes the browser and
\* main rejects
Login ==
    /\ pc = "login"
    /\ \E ok \in BOOLEAN : pc' = IF ok THEN "gate" ELSE "aborted"
    /\ run' = [run EXCEPT !.logins = @ + 1]
    /\ UNCHANGED <<disc, cap, pol, slp, today, takeScreenshots, startFile, file, req, bookingRequests,
                   processedRequests, todayRequests, i, processedCount, outputs,
                   hist, cur, bk, bsEnv, cls>>

\* the wait of a scheduled run; a rejected wait makes main reject
TimeGate ==
    /\ pc = "gate"
    /\ \E outcome \in {"skipped", "resumed", "rejected"} :
          /\ IF outcome = "rejected"
             THEN pc' = "aborted" /\ i' = i
             ELSE pc' = "loop" /\ i' = 1
          /\ run' = IF outcome = "skipped" THEN run
                    ELSE [run EXCEPT !.gates = @ + 1]
    /\ UNCHANGED <<disc, cap, pol, slp, today, takeScreenshots, startFile, file, req, bookingRequests,
                   processedRequests, todayRequests, processedCount, outputs,
                   hist, cur, bk, bsEnv, cls>>

\* request.status = s, with the outcome fields written beside it
SetStatus(heap, id, s, reason) ==
    [heap EXCEPT ![id].status = s, ![id].failureReason = reason]

\* a loop that counts every request it has handled
ReturnToMainCountAll(id, success) ==
    /\ processedCount' = processedCount + 1
    /\ i' = i + 1
    /\ pc' = "loop"

\* a loop that passes over the request after the one just handled
ReturnToMainSkipNext(id, success) ==
    /\ processedCount' = IF success THEN processedCount + 1 ELSE processedCount
    /\ i' = i + 2
    /\ pc' = "loop"

\* return { message, success } to main: results += ..., processedCount++, i++
ReturnToMain(id, success) ==
    /\ processedCount' = IF success THEN processedCount + 1 ELSE processedCount
    /\ i' = i + 1
    /\ pc' = "loop"

\* processRequest: const is3DayBooking = !isFirstRequest
PolicyFor(isFirstRequest) == IF isFirstRequest THEN "30day" ELSE "3day"

\* What the collaborators do before the candidates are tried:
\*   throw   a call outside bookSlot and checkPageState throws (msg)
\*   nodate  the date is not preselected and selectDateWithClick returns
\*           false (30-day handler only); shot is the screenshot
\*           confirmDateSelection takes before the click
\*   empty   the retry policy returns no slots; shot is the screenshot
\*   slots   the retry policy returns n slots
PreEnv(policy) ==
    [kind : {"throw"}, msg : FrameMsgs]
    \cup (IF policy = "30day"
          THEN [kind : {"nodate"}, shot : {"ok"} \cup ShotMsgs] ELSE {})
    \cup [kind : {"empty"}, shot : {"ok"} \cup ShotMsgs]
    \cup [kind : {"slots"}, n : 1..MaxRunSlots]

\* the outcomes of one bookSlot call: what it returns, and whether it
\* swallowed an exception
BookOutcomes == {<<bookSlot(e), bookSlotCaught(e)>> : e \in BookEnv}

\* a handler's catch block that writes failed instead of error
CatchErrorAsFailed(c, id, msg) ==
    /\ req' = [req EXCEPT ![id].status = "failed", ![id].failureReason = msg]
    /\ cur' = [c EXCEPT !.writes = @ + 1, !.thrown = msg]

\* the handler's catch block; c is what happened to the request before
CatchError(c, id, msg) ==
    /\ req' = SetStatus(req, id, "error", msg)
    /\ cur' = [c EXCEPT !.writes = @ + 1, !.thrown = msg]

\* a handler that runs the retry policy after a failed date selection
beforeBookingRetryAfterNoDate(e, shots) ==
    LET taken == IF shots THEN 1 ELSE 0
    IN  CASE e.kind = "throw" ->
               [to |-> "catch", msg |-> e.msg, retry |-> FALSE, shots |-> 0,
                slots |-> << >>]
          [] e.kind \in {"nodate", "empty"} ->
               IF shots /\ e.shot # "ok"
               THEN [to |-> "catch", msg |-> e.shot, retry |-> TRUE,
                     shots |-> 1, slots |-> << >>]
               ELSE [to |-> "failed", msg |-> "No available times",
                     retry |-> TRUE, shots |-> taken, slots |-> << >>]
          [] e.kind = "slots" ->
               [to |-> "book", msg |-> "none", retry |-> TRUE, shots |-> 0,
                slots |-> SlotList(e.n)]

\* a handler that hands an empty slot list to attemptBooking
beforeBookingTryEmpty(e, shots) ==
    LET taken == IF shots THEN 1 ELSE 0
    IN  CASE e.kind = "throw" ->
               [to |-> "catch", msg |-> e.msg, retry |-> FALSE, shots |-> 0,
                slots |-> << >>]
          [] e.kind = "nodate" ->
               IF shots /\ e.shot # "ok"
               THEN [to |-> "catch", msg |-> e.shot, retry |-> FALSE,
                     shots |-> 1, slots |-> << >>]
               ELSE [to |-> "failed", msg |-> "Could not select date",
                     retry |-> FALSE, shots |-> taken, slots |-> << >>]
          [] e.kind = "empty" ->
               [to |-> "book", msg |-> "none", retry |-> TRUE, shots |-> 0,
                slots |-> << >>]
          [] e.kind = "slots" ->
               [to |-> "book", msg |-> "none", retry |-> TRUE, shots |-> 0,
                slots |-> SlotList(e.n)]

\* a handler up to its call of attemptBooking: where it goes (the catch
\* block, a return as failed, or attemptBooking), with which message and
\* slots, whether it ran its retry policy and how many screenshots it took
beforeBooking(e, shots) ==
    LET taken == IF shots THEN 1 ELSE 0
    IN  CASE e.kind = "throw" ->
               [to |-> "catch", msg |-> e.msg, retry |-> FALSE, shots |-> 0,
                slots |-> << >>]
          [] e.kind = "nodate" ->
               IF shots /\ e.shot # "ok"
               THEN [to |-> "catch", msg |-> e.shot, retry |-> FALSE,
                     shots |-> 1, slots |-> << >>]
               ELSE [to |-> "failed", msg |-> "Could not select date",
                     retry |-> FALSE, shots |-> taken, slots |-> << >>]
          [] e.kind = "empty" ->
               IF shots /\ e.shot # "ok"
               THEN [to |-> "catch", msg |-> e.shot, retry |-> TRUE,
                     shots |-> 1, slots |-> << >>]
               ELSE [to |-> "failed", msg |-> "No available times",
                     retry |-> TRUE, shots |-> taken, slots |-> << >>]
          [] e.kind = "slots" ->
               [to |-> "book", msg |-> "none", retry |-> TRUE, shots |-> 0,
                slots |-> SlotList(e.n)]

\* main's loop body up to the call of attemptBooking
BeginRequest ==
    /\ pc = "loop"
    /\ i <= Len(todayRequests)
    /\ LET id == todayRequests[i]
           policy == PolicyFor(i = 1)
       IN  \E e \in PreEnv(policy) :
             LET b == beforeBooking(e, takeScreenshots)
                 c == [NoCur EXCEPT !.pre = e.kind, !.retry = b.retry,
                                    !.shots = b.shots]
             IN  IF b.to = "book"
                 THEN /\ bk' = attemptBookingInit(b.slots)
                      /\ hist' = [hist EXCEPT ![id].policy = policy]
                      /\ cur' = c
                      /\ pc' = "booking"
                      /\ UNCHANGED <<req, i, processedCount>>
                 ELSE /\ bk' = NoBooking
                      /\ hist' = [hist EXCEPT ![id].policy = policy,
                                              ![id].returned = TRUE]
                      /\ ReturnToMain(id, FALSE)
                      /\ IF b.to = "catch"
                         THEN CatchError(c, id, b.msg)
                         ELSE /\ req' = SetStatus(req, id, "failed", b.msg)
                              /\ cur' = [c EXCEPT !.writes = 1]
    /\ run' = [run EXCEPT !.started = Append(@, todayRequests[i])]
    /\ UNCHANGED <<disc, cap, pol, slp, today, takeScreenshots, startFile, file, bookingRequests,
                   processedRequests, todayRequests, outputs, bsEnv, cls>>

\* one iteration of attemptBooking's loop, bookSlot returning result
AttemptBookingStep(result) ==
    /\ pc = "booking"
    /\ attemptBookingMore(bk)
    /\ bk' = attemptBookingIter(bk, result)

BookStep ==
    /\ \E o \in BookOutcomes :
          /\ AttemptBookingStep(o[1])
          /\ cur' = [cur EXCEPT !.caught = @ \/ o[2]]
    /\ UNCHANGED <<run, disc, cap, pol, pc, slp, today, takeScreenshots, startFile, file, req, bookingRequests,
                   processedRequests, todayRequests, i, processedCount, outputs,
                   hist, bsEnv, cls>>

\* attemptBooking has returned: the status is written; the screenshot follows
FinishBooking ==
    /\ pc = "booking"
    /\ ~attemptBookingMore(bk)
    /\ LET id == todayRequests[i]
           booked == bk.bookedSlot # NoSlot
       IN  /\ req' = IF booked
                     THEN [req EXCEPT ![id].status = "success",
                                      ![id].bookedTime = bk.bookedSlot.time]
                     ELSE SetStatus(req, id, "failed", bk.lastError)
           /\ cur' = [cur EXCEPT !.writes = @ + 1]
           /\ IF takeScreenshots
              THEN /\ pc' = "shot"
                   /\ UNCHANGED <<i, processedCount, hist>>
              ELSE /\ hist' = [hist EXCEPT ![id].returned = TRUE]
                   /\ ReturnToMain(id, booked)
    /\ UNCHANGED <<run, disc, cap, pol, slp, today, takeScreenshots, startFile, file, bookingRequests,
                   processedRequests, todayRequests, outputs, bk, bsEnv, cls>>

\* page.screenshot after the status was written; a throw lands in the
\* handler's catch block
Diagnostics ==
    /\ pc = "shot"
    /\ LET id == todayRequests[i]
       IN  /\ hist' = [hist EXCEPT ![id].returned = TRUE]
           /\ \E shot \in {"ok"} \cup ShotMsgs :
                IF shot = "ok"
                THEN /\ ReturnToMain(id, req[id].status = "success")
                     /\ cur' = [cur EXCEPT !.shots = @ + 1]
                     /\ UNCHANGED req
                ELSE /\ CatchError([cur EXCEPT !.shots = @ + 1], id, shot)
                     /\ ReturnToMain(id, FALSE)
    /\ UNCHANGED <<run, disc, cap, pol, slp, today, takeScreenshots, startFile, file, bookingRequests,
                   processedRequests, todayRequests, outputs, bk, bsEnv, cls>>

\* a queue update that keeps every entry of the pending collection
SelectPendingKeepAll(ids, heap) == ids

\* a queue update that keeps every entry that was not booked
RECURSIVE SelectPendingKeepUnbooked(_, _)
SelectPendingKeepUnbooked(ids, heap) ==
    IF ids = <<>> THEN <<>>
    ELSE IF heap[Head(ids)].status # "success"
         THEN <<Head(ids)>> \o SelectPendingKeepUnbooked(Tail(ids), heap)
         ELSE SelectPendingKeepUnbooked(Tail(ids), heap)

\* bookingRequests.filter(req => req.status === "pending")
RECURSIVE SelectPending(_, _)
SelectPending(ids, heap) ==
    IF ids = <<>> THEN <<>>
    ELSE IF heap[Head(ids)].status = "pending"
         THEN <<Head(ids)>> \o SelectPending(Tail(ids), heap)
         ELSE SelectPending(Tail(ids), heap)

\* JSON.stringify(queueData)
Serialize(pending, processed, heap) ==
    [ bookingRequests |-> [k \in 1..Len(pending) |-> heap[pending[k]]],
      processedRequests |-> [k \in 1..Len(processed) |-> heap[processed[k]]] ]

\* a queue update that does not wait for the loop to end
UpdateQueueEarly ==
    /\ pc = "loop"
    /\ bookingRequests' = SelectPending(bookingRequests, req)
    /\ processedRequests' = todayRequests \o processedRequests
    /\ file' = Serialize(bookingRequests', processedRequests', req)
    /\ outputs' = processedCount
    /\ pc' = "done"
    /\ UNCHANGED <<run, disc, cap, pol, slp, today, takeScreenshots, startFile,
                   req, todayRequests, i, processedCount, hist, cur, bk, bsEnv,
                   cls>>

\* the queue update after the loop, the write of the file and the outputs
UpdateQueue ==
    /\ pc = "loop"
    /\ i > Len(todayRequests)
    /\ bookingRequests' = SelectPending(bookingRequests, req)
    /\ processedRequests' = todayRequests \o processedRequests
    /\ file' = Serialize(bookingRequests', processedRequests', req)
    /\ outputs' = processedCount
    /\ pc' = "done"
    /\ UNCHANGED <<run, disc, cap, pol, slp, today, takeScreenshots, startFile, req, todayRequests, i,
                   processedCount, hist, cur, bk, bsEnv, cls>>

Next ==
    \/ MainStart
    \/ Login
    \/ TimeGate
    \/ BeginRequest
    \/ BookStep
    \/ FinishBooking
    \/ Diagnostics
    \/ UpdateQueue

Spec == Init /\ [][Next]_vars

(***************************************************************************)
(* The eligibility filter on its own: more dates, longer queues            *)
(***************************************************************************)
FilterTodays == {<<2025, 6, 10>>, <<2025, 12, 29>>, <<2024, 2, 27>>}
FilterOffsets == {-1, 0, NearHorizonDays, NearHorizonDays + 1, FarHorizonDays, 30}
FilterKinds ==
    (FilterOffsets \X {"pending"}) \cup ({0, FarHorizonDays} \X {"success"})

InitFilter ==
    InitWith(FilterTodays, FilterKinds, MaxFilterLen, {TRUE}, {})

\* filterTodayRequests called once more on the queue main has loaded
FilterAgain ==
    /\ pc \in {"login", "done"}
    /\ disc = NoDisc
    /\ LET call == filterCall(bookingRequests, req, today)
       IN  /\ bookingRequests' = call.pending
           /\ disc' = [fn |-> "filterTodayRequests", selected |-> call.selected]
    /\ UNCHANGED <<run, cap, pol, slp, pc, today, takeScreenshots, startFile, file,
                   req, processedRequests, todayRequests, i, processedCount,
                   outputs, hist, cur, bk, bsEnv, cls>>

NextFilter == MainStart \/ FilterAgain

SpecFilter == InitFilter /\ [][NextFilter]_vars

(***************************************************************************)
(* attemptBooking on its own, the page behaviour of each call recorded     *)
(***************************************************************************)
EmptyFile == [bookingRequests |-> << >>, processedRequests |-> << >>]

\* every variable the part under study does not use
Idle ==
    /\ today = RunToday
    /\ takeScreenshots = TRUE
    /\ file = EmptyFile
    /\ startFile = EmptyFile
    /\ req = << >>
    /\ bookingRequests = << >>
    /\ processedRequests = << >>
    /\ todayRequests = << >>
    /\ i = 0
    /\ processedCount = 0
    /\ outputs = "unset"
    /\ hist = << >>
    /\ cur = NoCur
    /\ bsEnv = NoEnv
    /\ run = NoRun

InitBook ==
    /\ Idle
    /\ pc = "booking"
    /\ bk \in {attemptBookingInit(SlotList(n)) : n \in 0..MaxSlots}
    /\ cls = NoCls
    /\ disc = NoDisc
    /\ cap = NoCap
    /\ pol = NoPol
    /\ slp = NoSlp

\* one iteration of attemptBooking's loop, with its bookSlot call
BookSlotCall ==
    /\ \E e \in BookEnv :
          /\ AttemptBookingStep(bookSlot(e))
          /\ bsEnv' = e
    /\ UNCHANGED <<run, disc, cap, pol, pc, slp, today, takeScreenshots, startFile, file, req,
                   bookingRequests, processedRequests, todayRequests, i,
                   processedCount, outputs, hist, cur, cls>>

NextBook == BookSlotCall

SpecBook == InitBook /\ [][NextBook]_vars

(***************************************************************************)
(* checkPageState on its own                                               *)
(***************************************************************************)
ClsDates == {<<2025, 6, 15>>, <<2025, 6, 16>>, <<2026, 1, 1>>}
ClsTexts == {<<"June", 15, 2025>>, <<"June", 16, 2025>>, <<"January", 1, 2026>>}

Snapshots ==
    [ textThrows : BOOLEAN, tooEarly : SUBSET ClsTexts, noResults : BOOLEAN,
      slotsThrows : BOOLEAN, slotCount : 0..MaxSlots ]

InitClassify ==
    /\ Idle
    /\ pc = "classify"
    /\ bk = NoBooking
    /\ cls \in [snap : Snapshots, playDate : ClsDates, result : {"none"}]
    /\ disc = NoDisc
    /\ cap = NoCap
    /\ pol = NoPol
    /\ slp = NoSlp

Classify ==
    /\ pc = "classify"
    /\ cls' = [cls EXCEPT !.result = checkPageState(cls.snap, cls.playDate)]
    /\ pc' = "classified"
    /\ UNCHANGED <<run, disc, cap, pol, slp, today, takeScreenshots, startFile, file, req, bookingRequests,
                   processedRequests, todayRequests, i, processedCount, outputs,
                   hist, cur, bk, bsEnv>>

NextClassify == Classify

SpecClassify == InitClassify /\ [][NextClassify]_vars

(***************************************************************************)
(* checkApiForAvailability on its own                                      *)
(*                                                                         *)
(* A time of day "HH:MM" is written <<h, m>>.  parseTime gives the         *)
(* fractional hour h + m/60; the model keeps it in minutes (60 times the   *)
(* value), which orders times exactly as the fractional hours do.          *)
(***************************************************************************)
parseTime(t) == t[1] * 60 + t[2]

\* a payload slot that has no teeTime
NoTeeTime == <<-1, -1>>

\* the filter of teeSheet: the slot has a teeTime and it lies in the window
apiInRange(slot, timeRange) ==
    IF slot.teeTime = NoTeeTime THEN FALSE
    ELSE /\ parseTime(slot.teeTime) >= parseTime(timeRange.start)
         /\ parseTime(slot.teeTime) <= parseTime(timeRange.end)

\* a detector that takes any remaining capacity as available
checkApiForAvailabilityAnyCapacity(timeRange, teeSheet) ==
    LET timesInRange == SelectSeq(teeSheet, LAMBDA s : apiInRange(s, timeRange))
    IN  IF Len(timesInRange) = 0 THEN "not-released"
        ELSE IF Len(SelectSeq(timesInRange, LAMBDA s : s.availPlayers > 0)) > 0
        THEN "available"
        ELSE "all-booked"

checkApiForAvailability(timeRange, teeSheet) ==
    LET timesInRange == SelectSeq(teeSheet, LAMBDA s : apiInRange(s, timeRange))
        availableTimes == SelectSeq(timesInRange, LAMBDA s : s.availPlayers = 4)
        allBooked == \A k \in 1..Len(timesInRange) :
                        timesInRange[k].availPlayers = 0
    IN  IF Len(timesInRange) = 0 THEN "not-released"
        ELSE IF Len(availableTimes) > 0 THEN "available"
        ELSE IF allBooked THEN "all-booked"
        ELSE "all-booked"

MaxApiLen == 2          \* slots in a payload

ApiTimes == {NoTeeTime, <<7, 59>>, <<8, 0>>, <<9, 0>>, <<9, 1>>}
ApiSlots == [teeTime : ApiTimes, availPlayers : 0..4]
ApiWindows ==
    { [start |-> <<8, 0>>, end |-> <<9, 0>>],
      [start |-> <<9, 0>>, end |-> <<9, 0>>] }

\* every variable of main, of attemptBooking and of checkPageState at rest
IdleMain ==
    /\ Idle
    /\ bk = NoBooking
    /\ cls = NoCls
    /\ slp = NoSlp

InitApi ==
    /\ IdleMain
    /\ pc = "api"
    /\ \E n \in 0..MaxApiLen : \E sheet \in [1..n -> ApiSlots] :
          \E w \in ApiWindows :
             disc = [fn |-> "api", timeRange |-> w, input |-> sheet,
                     result |-> "none"]
    /\ cap = NoCap
    /\ pol = NoPol

CheckApi ==
    /\ pc = "api"
    /\ disc' = [disc EXCEPT
                  !.result = checkApiForAvailability(disc.timeRange, disc.input)]
    /\ pc' = "apiDone"
    /\ UNCHANGED <<run, cap, pol, slp, today, takeScreenshots, startFile, file, req,
                   bookingRequests, processedRequests, todayRequests, i,
                   processedCount, outputs, hist, cur, bk, bsEnv, cls>>

NextApi == CheckApi

SpecApi == InitApi /\ [][NextApi]_vars


(***************************************************************************)
(* navigateAndCaptureApiResponse on its own                                *)
(*                                                                         *)
(* The function starts a timer of API_TIMEOUT_MS and registers a response  *)
(* handler, then navigates.  Each matching response starts one run of the  *)
(* handler, which parses the body and classifies it before it assigns      *)
(* apiResult, clears the timer, removes the handler and resolves the       *)
(* promise.  The function returns once the promise is resolved and the     *)
(* page has loaded.                                                        *)
(***************************************************************************)
MaxResponses == 2       \* matching responses of one navigation

\* what a matching response leads to: a classification, or a body that
\* fails to parse
ResponseKinds == {"available", "all-booked", "not-released", "throw"}

\* after page.on('response', responseHandler), line 605
CaptureStart ==
    [ phase |-> "capturing", apiResult |-> "timeout", timer |-> "armed",
      resolved |-> FALSE, handlerOn |-> TRUE, pending |-> {}, arrived |-> 0,
      firstKind |-> "none", firstInBound |-> FALSE, nav |-> "pending",
      result |-> "none" ]

InitCapture ==
    /\ IdleMain
    /\ pc = "capture"
    /\ cap = CaptureStart
    /\ disc = NoDisc
    /\ pol = NoPol

CaptureUnchanged ==
    UNCHANGED <<run, disc, pol, pc, slp, today, takeScreenshots, startFile, file, req,
                bookingRequests, processedRequests, todayRequests, i,
                processedCount, outputs, hist, cur, bk, bsEnv, cls>>

\* a response for the target date arrives: responseHandler starts and
\* awaits response.json()
ResponseArrives ==
    /\ cap.phase = "capturing"
    /\ cap.handlerOn
    /\ cap.arrived < MaxResponses
    /\ \E kind \in ResponseKinds :
          cap' = [cap EXCEPT
                    !.arrived = @ + 1,
                    !.pending = @ \cup {[n |-> cap.arrived + 1, kind |-> kind]},
                    !.firstKind = IF cap.arrived = 0 THEN kind ELSE @,
                    !.firstInBound = IF cap.arrived = 0
                                     THEN cap.timer # "fired" ELSE @]
    /\ CaptureUnchanged

\* a started handler gets the parsed body: it assigns apiResult (unless the
\* parse threw), then clearTimeout, page.off, resolve
HandlerCompletes ==
    /\ cap.phase = "capturing"
    /\ \E r \in cap.pending :
          cap' = [cap EXCEPT
                    !.pending = @ \ {r},
                    !.apiResult = IF r.kind = "throw" THEN @ ELSE r.kind,
                    !.timer = IF @ = "armed" THEN "cleared" ELSE @,
                    !.handlerOn = FALSE,
                    !.resolved = TRUE]
    /\ CaptureUnchanged

\* setTimeout(resolve, API_TIMEOUT_MS) fires
TimerFires ==
    /\ cap.phase = "capturing"
    /\ cap.timer = "armed"
    /\ cap' = [cap EXCEPT !.timer = "fired", !.resolved = TRUE]
    /\ CaptureUnchanged

\* navigateToBookingPage, getBookingFrame and waitForDateDataToLoad finish,
\* or one of the first two throws and the function rejects
PageLoads ==
    /\ cap.phase = "capturing"
    /\ cap.nav = "pending"
    /\ \E ok \in BOOLEAN :
          cap' = IF ok THEN [cap EXCEPT !.nav = "loaded"]
                 ELSE [cap EXCEPT !.nav = "threw", !.phase = "rejected"]
    /\ CaptureUnchanged

\* a return that waits for the page only
CaptureReturnsUnjoined ==
    /\ cap.phase = "capturing"
    /\ cap.nav = "loaded"
    /\ cap' = [cap EXCEPT !.phase = "returned", !.result = cap.apiResult]
    /\ CaptureUnchanged

\* Promise.all is settled: return { frame, apiResult }
CaptureReturns ==
    /\ cap.phase = "capturing"
    /\ cap.resolved
    /\ cap.nav = "loaded"
    /\ cap' = [cap EXCEPT !.phase = "returned", !.result = cap.apiResult]
    /\ CaptureUnchanged

NextCapture ==
    \/ ResponseArrives
    \/ HandlerCompletes
    \/ TimerFires
    \/ PageLoads
    \/ CaptureReturns

SpecCapture == InitCapture /\ [][NextCapture]_vars


(***************************************************************************)
(* The retry policies findAvailableSlots3Day and findAvailableSlots30Day   *)
(*                                                                         *)
(* One cycle is one iteration of the policy's for loop.  What the cycle    *)
(* observes is given: the secondary signal of navigateAndCaptureApiResponse*)
(* (3-day only), the state checkPageState returns, how many slots          *)
(* findAvailableSlots finds, and the value of Math.random().  Delays are   *)
(* in milliseconds.                                                        *)
(***************************************************************************)
maxRetries == 30        \* default of both policies
minApiAttempts == 10    \* all-booked stops the 3-day policy when attempt > 10

APIResult == {"available", "all-booked", "not-released", "timeout"}
PageState == {"ready", "too-early", "no-results", "loading"}

\* Math.random() is RandomDen-th parts of one: 0 <= random < 1
RandomDen == 10000
RandomSamples == {0, 1, 5000, RandomDen - 1}

\* Math.floor(Math.random() * 90000)
randomJitter(random) == (random * 90000) \div RandomDen

Min(a, b) == IF a < b THEN a ELSE b

baseDelay(attempt) == <<1, 5, 10, 15, 30>>[Min(attempt, 4) + 1] * 1000

\* a schedule whose jitter starts one attempt early
totalDelayEarlyJitter(attempt, random) ==
    baseDelay(attempt) + (IF attempt > 3 THEN randomJitter(random) ELSE 0)

totalDelay(attempt, random) ==
    baseDelay(attempt) + (IF attempt > 4 THEN randomJitter(random) ELSE 0)

\* nothing observed yet
NoCycle ==
    [ attempt |-> -1, api |-> "none", state |-> "none", found |-> 0,
      delay |-> 0, reloaded |-> FALSE,
      view |-> -1 ]           \* the load of the view the classifier looked at

\* A view is known by the number of times it has been loaded since the
\* policy was called: the frame findAvailableSlots30Day is given is load 0,
\* every frame.goto and every navigateAndCaptureApiResponse is one more.
PolicyStart(kind) ==
    [ kind |-> kind, attempt |-> 0, cycles |-> 0, done |-> FALSE,
      slots |-> << >>, booked |-> 0, last |-> NoCycle,
      view |-> 0,             \* the load the view is now at
      checks |-> 0,           \* checkPageState calls on this load
      empties |-> 0,          \* 30-day: ready observations with zero slots
      frame |-> -1,           \* updatedFrame: the load of the view returned
      booking |-> -1 ]        \* the load of the frame attemptBooking is given

\* return { slots, updatedFrame }
PolicyReturn(p, slots) ==
    [p EXCEPT !.done = TRUE, !.slots = slots, !.frame = p.view]

\* frame.goto(frame.url()); frame.waitForLoadState("networkidle")
reloadView(p) == [p EXCEPT !.view = @ + 1, !.checks = 0, !.last.reloaded = TRUE]

\* checkPageState(frame, playDate) returning state
observeView(p, state) ==
    [p EXCEPT !.checks = @ + 1, !.last.state = state, !.last.view = p.view]

\* a loop that runs while attempt <= maxRetries + 1
PolicyContinueOneMore(p, skip) ==
    LET q == [p EXCEPT !.attempt = @ + skip + 1]
    IN  IF q.attempt <= maxRetries + 1 THEN q ELSE PolicyReturn(q, << >>)

\* continue: attempt++ (after skip more), and the loop ends with the empty
\* list once attempt > maxRetries
PolicyContinue(p, skip) ==
    LET q == [p EXCEPT !.attempt = @ + skip + 1]
    IN  IF q.attempt <= maxRetries THEN q ELSE PolicyReturn(q, << >>)

\* the part of a 3-day cycle after the secondary signal has been looked at
domCycle3Day(p, state, found, random) ==
    LET q == observeView(p, state)
    IN  IF state = "ready"
        THEN IF found > 0
             THEN PolicyReturn([q EXCEPT !.last.found = found], SlotList(found))
             ELSE PolicyContinue(
                    [q EXCEPT !.last.delay = totalDelay(p.attempt, random)], 0)
        ELSE IF state = "too-early"
        THEN PolicyContinue([q EXCEPT !.last.delay = 1000], 0)
        ELSE PolicyContinue([q EXCEPT !.last.delay = 500], 0)

\* the start of a 3-day cycle: navigateAndCaptureApiResponse returns api
\* and the frame of the page it has just loaded
navigate3Day(p, api) ==
    [p EXCEPT !.cycles = @ + 1,
              !.booked = IF api = "all-booked" THEN @ + 1 ELSE 0,
              !.view = @ + 1,
              !.checks = 0,
              !.last = [NoCycle EXCEPT !.attempt = p.attempt, !.api = api]]

\* a 3-day cycle that takes the secondary signal's word for availability
cycle3DayTrustApi(p, api, state, found, random) ==
    LET q == navigate3Day(p, api)
    IN  IF api = "all-booked" /\ p.attempt > minApiAttempts
        THEN PolicyReturn(q, << >>)
        ELSE IF api = "available"
        THEN PolicyReturn(q, SlotList(1))
        ELSE domCycle3Day(q, state, found, random)

\* a 3-day cycle that stops at the first all-booked signal
cycle3DayStopAtOnce(p, api, state, found, random) ==
    LET q == navigate3Day(p, api)
    IN  IF api = "all-booked"
        THEN PolicyReturn(q, << >>)
        ELSE domCycle3Day(q, state, found, random)

\* a 3-day cycle that looks again at the view it has, without a navigation,
\* after a no-results or loading observation
cycle3DayReobserve(p, api, state, found, random) ==
    LET q == IF p.last.state \in {"no-results", "loading"}
             THEN [navigate3Day(p, api) EXCEPT !.view = p.view,
                                               !.checks = p.checks]
             ELSE navigate3Day(p, api)
    IN  IF api = "all-booked" /\ p.attempt > minApiAttempts
        THEN PolicyReturn(q, << >>)
        ELSE domCycle3Day(q, state, found, random)

\* one iteration of findAvailableSlots3Day's loop
cycle3Day(p, api, state, found, random) ==
    LET q == navigate3Day(p, api)
    IN  IF api = "all-booked" /\ p.attempt > minApiAttempts
        THEN PolicyReturn(q, << >>)
        ELSE domCycle3Day(q, state, found, random)

\* a 30-day cycle that reloads the view after a no-results or loading
\* observation too
cycle30DayReloadAlways(p, state, found) ==
    LET q == observeView(
               [p EXCEPT !.cycles = @ + 1,
                         !.last = [NoCycle EXCEPT !.attempt = p.attempt]],
               state)
    IN  IF state = "ready"
        THEN IF found > 0
             THEN PolicyReturn([q EXCEPT !.last.found = found], SlotList(found))
             ELSE PolicyContinue(
                    reloadView([q EXCEPT !.empties = @ + 1,
                                         !.last.delay = 1000]), 2)
        ELSE IF state = "too-early"
        THEN PolicyContinue(reloadView([q EXCEPT !.last.delay = 300]), 0)
        ELSE PolicyContinue(reloadView([q EXCEPT !.last.delay = 500]), 0)

\* a 30-day cycle whose reload after a ready observation with zero slots
\* costs two attempts
cycle30DaySkipOne(p, state, found) ==
    LET q == observeView(
               [p EXCEPT !.cycles = @ + 1,
                         !.last = [NoCycle EXCEPT !.attempt = p.attempt]],
               state)
    IN  IF state = "ready"
        THEN IF found > 0
             THEN PolicyReturn([q EXCEPT !.last.found = found], SlotList(found))
             ELSE PolicyContinue(
                    reloadView([q EXCEPT !.empties = @ + 1,
                                         !.last.delay = 1000]), 1)
        ELSE IF state = "too-early"
        THEN PolicyContinue(reloadView([q EXCEPT !.last.delay = 300]), 0)
        ELSE PolicyContinue([q EXCEPT !.last.delay = 500], 0)

\* a 30-day cycle that reloads the view once more before it returns the
\* slots it found
cycle30DayReloadThenReturn(p, state, found) ==
    LET q == observeView(
               [p EXCEPT !.cycles = @ + 1,
                         !.last = [NoCycle EXCEPT !.attempt = p.attempt]],
               state)
    IN  IF state = "ready"
        THEN IF found > 0
             THEN PolicyReturn(reloadView([q EXCEPT !.last.found = found]),
                               SlotList(found))
             ELSE PolicyContinue(
                    reloadView([q EXCEPT !.empties = @ + 1,
                                         !.last.delay = 1000]), 2)
        ELSE IF state = "too-early"
        THEN PolicyContinue(reloadView([q EXCEPT !.last.delay = 300]), 0)
        ELSE PolicyContinue([q EXCEPT !.last.delay = 500], 0)

\* one iteration of findAvailableSlots30Day's loop
cycle30Day(p, state, found) ==
    LET q == observeView(
               [p EXCEPT !.cycles = @ + 1,
                         !.last = [NoCycle EXCEPT !.attempt = p.attempt]],
               state)
    IN  IF state = "ready"
        THEN IF found > 0
             THEN PolicyReturn([q EXCEPT !.last.found = found], SlotList(found))
             ELSE PolicyContinue(
                    reloadView([q EXCEPT !.empties = @ + 1,
                                         !.last.delay = 1000]), 2)
        ELSE IF state = "too-early"
        THEN PolicyContinue(reloadView([q EXCEPT !.last.delay = 300]), 0)
        ELSE PolicyContinue([q EXCEPT !.last.delay = 500], 0)

\* what the view shows in a cycle: the classified state and, when it is
\* ready, the number of slots discovery finds in the window
DomEnvs ==
    {[state |-> s, found |-> 0] : s \in PageState \ {"ready"}}
        \cup {[state |-> "ready", found |-> n] : n \in 0..MaxRunSlots}

InitPolicy ==
    /\ IdleMain
    /\ pc = "policy"
    /\ pol \in {PolicyStart(k) : k \in {"3day", "30day"}}
    /\ disc = NoDisc
    /\ cap = NoCap

PolicyUnchanged ==
    UNCHANGED <<run, disc, cap, pc, slp, today, takeScreenshots, startFile, file, req,
                bookingRequests, processedRequests, todayRequests, i,
                processedCount, outputs, hist, cur, bsEnv, cls>>

Cycle3Day ==
    /\ pc = "policy"
    /\ pol.kind = "3day"
    /\ ~pol.done
    /\ \E api \in APIResult : \E d \in DomEnvs : \E random \in RandomSamples :
          pol' = cycle3Day(pol, api, d.state, d.found, random)
    /\ UNCHANGED bk
    /\ PolicyUnchanged

Cycle30Day ==
    /\ pc = "policy"
    /\ pol.kind = "30day"
    /\ ~pol.done
    /\ \E d \in DomEnvs : pol' = cycle30Day(pol, d.state, d.found)
    /\ UNCHANGED bk
    /\ PolicyUnchanged

\* the handler's call attemptBooking(updatedFrame, slots) that follows a
\* policy's return with slots
HandOver ==
    /\ pc = "policy"
    /\ pol.done
    /\ pol.slots # << >>
    /\ bk = NoBooking
    /\ bk' = attemptBookingInit(pol.slots)
    /\ pol' = [pol EXCEPT !.booking = pol.frame]
    /\ PolicyUnchanged

NextPolicy == Cycle3Day \/ Cycle30Day \/ HandOver

SpecPolicy == InitPolicy /\ [][NextPolicy]_vars

\* every cycle's awaited calls return, so a policy that is not done goes on
SpecPolicyLive == SpecPolicy /\ WF_vars(NextPolicy)


(***************************************************************************)
(* findAvailableSlots on its own                                           *)
(*                                                                         *)
(* A rendered row has the text of its time element, "h:mm AM" or "h:mm PM" *)
(* written <<h, m, "AM">>, or no time element that matches, and the number *)
(* in its availability element, -1 when the element is missing.  The       *)
(* formatted time "HH:MM" of a slot is the sequence of its four digits     *)
(* (the colon, always third, is left out), and localeCompare on such       *)
(* strings is the lexicographic order of the digit sequences.              *)
(***************************************************************************)
MaxRows == 3            \* rendered rows matched by the selector

NoRowTime == <<0, 0, "none">>

\* hour.toString() / minute.toString()
Digits(n) == IF n < 10 THEN <<n>> ELSE <<n \div 10, n % 10>>

\* padStart(2, "0")
padStart2(ds) == IF Len(ds) < 2 THEN <<0>> \o ds ELSE ds

formattedTime(hour, minute) == padStart2(Digits(hour)) \o padStart2(Digits(minute))

\* the 24-hour hour of a row time
hour24(t) ==
    LET isPM == t[3] = "PM"
    IN  IF isPM /\ t[1] # 12 THEN t[1] + 12
        ELSE IF ~isPM /\ t[1] = 12 THEN 0
        ELSE t[1]

\* a window test that leaves out a slot exactly at the end
rowInRangeExclusive(t, timeRange) ==
    LET slotTime == hour24(t) * 60 + t[2]
    IN  ~(slotTime < parseTime(timeRange.start)
            \/ slotTime >= parseTime(timeRange.end))

\* not (slotTime < startNum || slotTime > endNum)
rowInRange(t, timeRange) ==
    LET slotTime == hour24(t) * 60 + t[2]
    IN  ~(slotTime < parseTime(timeRange.start)
            \/ slotTime > parseTime(timeRange.end))

\* the loop over the rows: slots pushed so far, in row order
RECURSIVE collectSlots(_, _, _)
collectSlots(rows, timeRange, slots) ==
    IF rows = << >> THEN slots
    ELSE LET row == Head(rows)
             keep == /\ row.avail = 4
                     /\ row.time # NoRowTime
                     /\ rowInRange(row.time, timeRange)
         IN  collectSlots(Tail(rows), timeRange,
                IF keep
                THEN Append(slots,
                        [ time |-> formattedTime(hour24(row.time), row.time[2]),
                          id |-> Len(slots) ])
                ELSE slots)

\* a.localeCompare(b) < 0 on strings of digits
RECURSIVE DigitsLT(_, _)
DigitsLT(a, b) ==
    IF b = << >> THEN FALSE
    ELSE IF a = << >> THEN TRUE
    ELSE IF Head(a) # Head(b) THEN Head(a) < Head(b)
    ELSE DigitsLT(Tail(a), Tail(b))

\* a comparator that prefers earlier times
slotComesBeforeEarlier(a, b) == DigitsLT(a.time, b.time)

\* (a, b) => b.time.localeCompare(a.time) is negative: a sorts before b
slotComesBefore(a, b) == DigitsLT(b.time, a.time)

RECURSIVE insertSlot(_, _)
insertSlot(x, sorted) ==
    IF sorted = << >> THEN <<x>>
    ELSE IF slotComesBefore(x, Head(sorted)) THEN <<x>> \o sorted
    ELSE <<Head(sorted)>> \o insertSlot(x, Tail(sorted))

\* slots.sort(comparator): stable
RECURSIVE sortSlots(_)
sortSlots(slots) ==
    IF slots = << >> THEN << >>
    ELSE insertSlot(slots[Len(slots)], sortSlots(SubSeq(slots, 1, Len(slots) - 1)))

findAvailableSlots(rows, timeRange) == sortSlots(collectSlots(rows, timeRange, << >>))

RowTimes ==
    {<<7, 59, "AM">>, <<8, 0, "AM">>, <<12, 30, "PM">>, <<1, 0, "PM">>,
     <<1, 1, "PM">>}

RowKinds ==
    [time : RowTimes, avail : {0, 3, 4}]
        \cup { [time |-> <<12, 15, "AM">>, avail |-> 4],
               [time |-> NoRowTime, avail |-> 4],
               [time |-> <<8, 0, "AM">>, avail |-> -1] }

RowWindows == { [start |-> <<8, 0>>, end |-> <<13, 0>>] }

InitDiscover ==
    /\ IdleMain
    /\ pc = "discover"
    /\ \E n \in 0..MaxRows : \E rows \in [1..n -> RowKinds] :
          \E w \in RowWindows :
             disc = [fn |-> "discover", timeRange |-> w, input |-> rows,
                     result |-> << >>]
    /\ cap = NoCap
    /\ pol = NoPol

Discover ==
    /\ pc = "discover"
    /\ disc' = [disc EXCEPT
                  !.result = findAvailableSlots(disc.input, disc.timeRange)]
    /\ pc' = "discovered"
    /\ UNCHANGED <<run, cap, pol, slp, today, takeScreenshots, startFile, file, req,
                   bookingRequests, processedRequests, todayRequests, i,
                   processedCount, outputs, hist, cur, bk, bsEnv, cls>>

NextDiscover == Discover

SpecDiscover == InitDiscover /\ [][NextDiscover]_vars


(***************************************************************************)
(* sleepUntilTimeInZone on its own                                         *)
(*                                                                         *)
(* Instants are minutes on the UTC time line.  The zone is given by its    *)
(* offset from UTC in minutes at the time of the call; the formatter with  *)
(* timeZoneName "longOffset" writes it "GMT+05:30" or "GMT-04:00", and     *)
(* plain "GMT" when the offset is zero.  The host zone is UTC.             *)
(***************************************************************************)
MinutesPerDay == 1440

ZoneOffsets == {-240, 0, 330}

\* instants of the call: around midnight and around the target times
CallTimes == {MinutesPerDay + x : x \in {0, 200, 659, 660, 661, 1439}}

TargetHours == {0, 7, 11, 23}
TargetMinutes == {0, 30}

\* the longOffset part as the formatter writes it: sign, hours, minutes, or
\* no offset at all
offsetString(offset) ==
    IF offset = 0 THEN <<"GMT">>
    ELSE LET abs == IF offset < 0 THEN -offset ELSE offset
         IN  <<"GMT", IF offset < 0 THEN "-" ELSE "+", abs \div 60, abs % 60>>

\* offsetString.match(/GMT([+-])(\d{1,2})(?::(\d{2}))?/)
offsetMatches(str) == Len(str) = 4

\* totalOffsetMinutes of a matched offset string
totalOffsetMinutes(str) ==
    (IF str[2] = "+" THEN 1 ELSE -1) * (str[3] * 60 + str[4])

\* the calendar day of an instant in the zone (formatToParts year/month/day)
dayInZone(now, offset) == (now + offset) \div MinutesPerDay

\* calculateDelay's try block, the offset string having matched
primaryDelay(now, offset, hour, minute) ==
    LET targetDateAttempt ==
            dayInZone(now, offset) * MinutesPerDay + hour * 60 + minute
                - totalOffsetMinutes(offsetString(offset))
    IN  IF targetDateAttempt <= now THEN 0 ELSE targetDateAttempt - now

\* the fallback: the zone's wall clock read as host-local time, setHours
fallbackDelay(now, offset, hour, minute) ==
    LET targetTime == dayInZone(now, offset) * MinutesPerDay + hour * 60 + minute
    IN  IF targetTime <= now THEN 0 ELSE targetTime - now

\* resolve() and reject() settle a promise only once
settle(s, outcome, at) ==
    IF s.promise = "pending"
    THEN [s EXCEPT !.promise = outcome, !.settledAt = at]
    ELSE s

SleepCalls ==
    [ phase : {"called"}, offset : ZoneOffsets, part : {"ok", "missing"},
      fallback : {"ok", "throw"}, now : CallTimes, hour : TargetHours,
      minute : TargetMinutes, promise : {"pending"}, settledAt : {-1},
      primaryFailed : {FALSE}, delay : {-1} ]

InitSleep ==
    /\ Idle
    /\ pc = "sleep"
    /\ bk = NoBooking
    /\ cls = NoCls
    /\ disc = NoDisc
    /\ cap = NoCap
    /\ pol = NoPol
    /\ slp \in SleepCalls

SleepUnchanged ==
    UNCHANGED <<run, disc, cap, pol, pc, today, takeScreenshots, startFile, file,
                req, bookingRequests, processedRequests, todayRequests, i,
                processedCount, outputs, hist, cur, bk, bsEnv, cls>>

\* the promise executor: calculateDelay, the fallback, then resolve() or
\* setTimeout
SleepExecutor ==
    /\ slp.phase = "called"
    /\ LET failed == slp.part = "missing"
                       \/ ~offsetMatches(offsetString(slp.offset))
           s1 == IF failed
                 THEN settle([slp EXCEPT !.primaryFailed = TRUE], "rejected",
                             slp.now)
                 ELSE slp
       IN  IF failed /\ slp.fallback = "throw"
           THEN slp' = [settle(s1, "rejected", slp.now) EXCEPT !.phase = "returned"]
           ELSE LET delay ==
                        IF failed
                        THEN fallbackDelay(slp.now, slp.offset, slp.hour, slp.minute)
                        ELSE primaryDelay(slp.now, slp.offset, slp.hour, slp.minute)
                    s2 == [s1 EXCEPT !.delay = delay]
                IN  IF delay <= 0
                    THEN slp' = [settle(s2, "resolved", slp.now)
                                   EXCEPT !.phase = "returned"]
                    ELSE slp' = [s2 EXCEPT !.phase = "waiting"]
    /\ SleepUnchanged

\* the timer callback: resolve(), at or after the delay
SleepTimerFires ==
    /\ slp.phase = "waiting"
    /\ \E late \in {0, 1} :
          slp' = [settle(slp, "resolved", slp.now + slp.delay + late)
                    EXCEPT !.phase = "returned"]
    /\ SleepUnchanged

NextSleep == SleepExecutor \/ SleepTimerFires

SpecSleep == InitSleep /\ [][NextSleep]_vars


(***************************************************************************)
(* The wait of a scheduled run: main computes the next hour on the Eastern *)
(* wall clock and calls sleepUntilTimeInZone(nextHour, 0)                  *)
(***************************************************************************)
\* America/New_York: daylight and standard time
EasternOffsets == {-240, -300}

\* instants at which main reaches the wait
GateTimes == CallTimes \cup {MinutesPerDay + x : x \in {239, 259, 1000}}

\* nowInET.getHours() + 1, and 0 for 24
nextHourAt(now, offset) ==
    LET hours == ((now + offset) % MinutesPerDay) \div 60
    IN  IF hours + 1 = 24 THEN 0 ELSE hours + 1

InitGate ==
    /\ Idle
    /\ pc = "gate"
    /\ bk = NoBooking
    /\ cls = NoCls
    /\ disc = NoDisc
    /\ cap = NoCap
    /\ pol = NoPol
    /\ slp \in [ phase : {"gate"}, offset : EasternOffsets, now : GateTimes,
                 part : {"ok", "missing"}, fallback : {"ok", "throw"} ]

\* main, IS_SCHEDULED_RUN being "true": the call of the wait
GateCall ==
    /\ slp.phase = "gate"
    /\ slp' = [ phase |-> "called", offset |-> slp.offset, part |-> slp.part,
                fallback |-> slp.fallback, now |-> slp.now,
                hour |-> nextHourAt(slp.now, slp.offset), minute |-> 0,
                promise |-> "pending", settledAt |-> -1,
                primaryFailed |-> FALSE, delay |-> -1 ]
    /\ SleepUnchanged

NextGate == GateCall \/ SleepExecutor \/ SleepTimerFires

SpecGate == InitGate /\ [][NextGate]_vars


(***************************************************************************)
(* Properties                                                              *)
(***************************************************************************)
Range(q) == {q[k] : k \in 1..Len(q)}

IdsIn(records) == {records[k].id : k \in 1..Len(records)}

Terminal == {"success", "failed", "error"}

\* processRequest has returned for the request before position i
JustReturned == pc \in {"loop", "done"} /\ i > 1

LastId == todayRequests[i - 1]

\* C1: after a completed run with at least one eligible request, every
\* request filterTodayRequests returned is in processedRequests and not in
\* bookingRequests, whatever its outcome, and every pending request that was
\* not eligible is still in bookingRequests, unchanged.
C1_EligibleMovedOthersUntouched ==
    (pc = "done" /\ todayRequests # << >>) =>
        \A k \in 1..Len(startFile.bookingRequests) :
            LET r == startFile.bookingRequests[k]
            IN  IF r.id \in Range(todayRequests)
                THEN /\ r.id \in IdsIn(file.processedRequests)
                     /\ r.id \notin IdsIn(file.bookingRequests)
                     /\ r.id \in Range(processedRequests)
                     /\ r.id \notin Range(bookingRequests)
                     /\ req[r.id].status \in Terminal
                ELSE r.status = "pending" =>
                        /\ r \in Range(file.bookingRequests)
                        /\ r.id \in Range(bookingRequests)
                        /\ r.id \notin IdsIn(file.processedRequests)

C1_Witness ==
    /\ pc = "done"
    /\ Len(todayRequests) = 1
    /\ req[todayRequests[1]].status = "error"
    /\ \E k \in 1..Len(startFile.bookingRequests) :
          /\ startFile.bookingRequests[k].status = "pending"
          /\ startFile.bookingRequests[k].id \notin Range(todayRequests)
          /\ startFile.bookingRequests[k] \in Range(file.bookingRequests)

\* C2: during a run the status of an eligible request is written exactly
\* once, from pending to success, failed or error; no later step of the run
\* (the diagnostics capture and the catch handler included) writes it again.
C2_StatusWrittenOnce ==
    /\ cur.writes <= 1
    /\ JustReturned => cur.writes = 1 /\ req[LastId].status \in Terminal

C4_EligibleIff ==
    pc # "start" =>
        \A k \in 1..Len(startFile.bookingRequests) :
            LET r == startFile.bookingRequests[k]
                ahead == ParseDate(r.playDate) - ParseDate(today)
            IN  r.id \in Range(todayRequests) <=>
                    /\ r.status = "pending"
                    /\ (ahead = FarHorizonDays \/ (0 <= ahead /\ ahead <= 3))

C4_Witness ==
    /\ pc # "start"
    /\ today = <<2025, 12, 29>>
    /\ Len(startFile.bookingRequests) = 3
    /\ startFile.bookingRequests[1].playDate = <<2026, 1, 1>>
    /\ startFile.bookingRequests[2].playDate = <<2026, 1, 2>>
    /\ startFile.bookingRequests[3].playDate = <<2026, 1, 19>>
    /\ Range(todayRequests) = {1, 3}

\* C5: the list filterTodayRequests returns is ordered by playDate
\* descending, and two eligible requests with the same playDate keep the
\* relative order they had in the pending collection (entry k has id k).
C5_SortedDescStable ==
    pc # "start" =>
        \A a, b \in 1..Len(todayRequests) :
            a < b =>
                LET da == ParseDate(req[todayRequests[a]].playDate)
                    db == ParseDate(req[todayRequests[b]].playDate)
                IN  /\ da >= db
                    /\ da = db => todayRequests[a] < todayRequests[b]

C5_Witness ==
    /\ pc # "start"
    /\ todayRequests = <<3, 1, 2>>
    /\ req[1].playDate = req[2].playDate
    /\ req[3].playDate # req[1].playDate

\* the last bookSlot outcome of the attemptBooking under way
LastResult == bk.results[Len(bk.results)]

FirstSuccess ==
    CHOOSE k \in 1..Len(bk.results) :
        bk.results[k] = "success" /\ \A j \in 1..(k - 1) : bk.results[j] # "success"

\* C6: attemptBooking returns as booked the first candidate, in list order,
\* whose bookSlot outcome is success, however many earlier candidates were
\* locked or error; it returns no booked slot only when no candidate
\* succeeds.  With outcomes locked, locked, success it returns the third.
C6_FirstSuccessBooked ==
    (pc = "booking" /\ ~attemptBookingMore(bk)) =>
        /\ ("success" \in Range(bk.results)) => bk.bookedSlot = bk.slots[FirstSuccess]
        /\ ("success" \notin Range(bk.results)) =>
              /\ bk.bookedSlot = NoSlot
              /\ Len(bk.results) = Len(bk.slots)
        /\ bk.results = <<"locked", "locked", "success">> =>
              bk.bookedSlot = bk.slots[3]

C6_Witness ==
    /\ pc = "booking"
    /\ ~attemptBookingMore(bk)
    /\ bk.results = <<"locked", "locked", "success">>
    /\ bk.bookedSlot = bk.slots[3]

\* C7: within one attemptBooking invocation bookSlot is invoked on the
\* candidates in the given order, at most once per candidate, and on no
\* candidate after one has succeeded.
C7_CallsInOrderOnce ==
    pc = "booking" =>
        /\ Len(bk.calls) <= Len(bk.slots)
        /\ \A k \in 1..Len(bk.calls) : bk.calls[k] = bk.slots[k].id
        /\ \A k \in 1..(Len(bk.results) - 1) : bk.results[k] # "success"
        /\ Len(bk.results) = Len(bk.calls)

C7_Witness ==
    /\ pc = "booking"
    /\ Len(bk.slots) = 3
    /\ bk.results = <<"error", "success">>
    /\ bk.calls = <<0, 1>>
    /\ ~attemptBookingMore(bk)

\* C8: when every candidate of a request fails, the request ends failed and
\* its failureReason is the reason of the last candidate attempted; a
\* conflict is the request's failure reason only in that case.
C8_AllFailedEndsFailed ==
    JustReturned =>
        /\ (bk.results # << >> /\ "success" \notin Range(bk.results)) =>
              /\ req[LastId].status = "failed"
              /\ req[LastId].failureReason =
                    IF LastResult = "locked"
                    THEN "Time slot locked by another user"
                    ELSE "Failed to complete booking"
        /\ req[LastId].failureReason = "Time slot locked by another user" =>
              /\ bk.results # << >>
              /\ "success" \notin Range(bk.results)
              /\ LastResult = "locked"

BookFields ==
    {"loader", "click", "forceClick", "close", "buddies", "group", "bookNow",
     "idle", "confirmed"}

\* C9 as stated: success only after the form was reachable and the
\* confirmation signal seen; locked when the conflict indicator wins the
\* race; error when neither indicator appears in time, when the confirmation
\* signal does not arrive, or when any interaction throws.
C9_AnyThrowIsError ==
    bsEnv # NoEnv =>
        /\ LastResult = "success" => bsEnv.race = "form" /\ bsEnv.confirmed = "ok"
        /\ bsEnv.race = "locked" => LastResult = "locked"
        /\ bsEnv.race = "timeout" => LastResult = "error"
        /\ bsEnv.confirmed = "throw" => LastResult = "error"
        /\ (\E f \in BookFields : bsEnv[f] = "throw") => LastResult = "error"

\* C9 as amended: as stated, except that a throw of the loader wait, of the
\* first click when the forced click then succeeds, or of the click that
\* closes the conflict dialog is handled inside bookSlot and does not make
\* the outcome error; every other throw does.  Every call returns one of
\* the three outcomes.
C9_BookSlotOutcome ==
    bsEnv # NoEnv =>
        /\ LastResult \in {"success", "locked", "error"}
        /\ LastResult = "success" =>
              /\ bsEnv.race = "form"
              /\ bsEnv.confirmed = "ok"
        /\ bsEnv.race = "locked" <=> LastResult = "locked"
        /\ bsEnv.race = "timeout" => LastResult = "error"
        /\ bsEnv.confirmed = "throw" => LastResult = "error"
        /\ (\E f \in {"forceClick", "buddies", "group", "bookNow", "idle",
                      "confirmed"} : bsEnv[f] = "throw")
              => LastResult = "error"
        /\ (LastResult # "error" /\ \E f \in BookFields : bsEnv[f] = "throw") =>
              \A f \in BookFields :
                  bsEnv[f] = "throw" => f \in {"loader", "click", "close"}

C9_Witness ==
    /\ bsEnv # NoEnv
    /\ bsEnv.click = "throw"
    /\ bsEnv.forceClick = "ok"
    /\ bsEnv.race = "form"
    /\ bsEnv.confirmed = "ok"
    /\ LastResult = "success"

\* the too-early text for the target date is in the page text
TooEarlyText(c) ==
    <<MonthNames[c.playDate[2]], c.playDate[3], c.playDate[1]>> \in c.snap.tooEarly

\* C10: checkPageState decides in strict priority order: too-early if the
\* release-time text for the target date is present, else no-results if the
\* no-results text is present, else ready if a slot-time element exists,
\* else loading.  A snapshot with both texts is too-early, and ready is
\* never returned when either text is present.
C10_PriorityOrder ==
    pc = "classified" =>
        LET s == cls.snap
            early == TooEarlyText(cls)
        IN  /\ ~s.textThrows =>
                  /\ early => cls.result = "too-early"
                  /\ (~early /\ s.noResults) => cls.result = "no-results"
                  /\ (~early /\ ~s.noResults /\ ~s.slotsThrows) =>
                        cls.result = IF s.slotCount > 0 THEN "ready" ELSE "loading"
            /\ (early \/ s.noResults) => cls.result # "ready"

C10_Witness ==
    /\ pc = "classified"
    /\ ~cls.snap.textThrows
    /\ TooEarlyText(cls)
    /\ cls.snap.noResults
    /\ cls.snap.slotCount > 0
    /\ cls.result = "too-early"

\* a time of day lies in a window, both ends included (on <<h, m>> pairs)
Within(t, w) ==
    /\ (w.start[1] < t[1] \/ (w.start[1] = t[1] /\ w.start[2] <= t[2]))
    /\ (t[1] < w.end[1] \/ (t[1] = w.end[1] /\ t[2] <= w.end[2]))

\* the payload slots that lie in the requested window
InWindowSlots ==
    {k \in 1..Len(disc.input) :
        /\ disc.input[k].teeTime # NoTeeTime
        /\ Within(disc.input[k].teeTime, disc.timeRange)}

\* C11: checkApiForAvailability returns not-released iff no slot of the
\* payload lies in the inclusive requested window; otherwise available iff
\* at least one in-window slot has remaining capacity exactly 4; otherwise
\* all-booked, for an all-zero window and for one with only partial capacity.
C11_DetectorClassification ==
    pc = "apiDone" =>
        /\ disc.result = "not-released" <=> InWindowSlots = {}
        /\ disc.result = "available" <=>
              \E k \in InWindowSlots : disc.input[k].availPlayers = 4
        /\ disc.result = "all-booked" <=>
              /\ InWindowSlots # {}
              /\ \A k \in InWindowSlots : disc.input[k].availPlayers \in 0..3

C11_Witness ==
    /\ pc = "apiDone"
    /\ disc.timeRange = [start |-> <<8, 0>>, end |-> <<9, 0>>]
    /\ Len(disc.input) = 2
    /\ disc.input[1] = [teeTime |-> <<9, 0>>, availPlayers |-> 0]
    /\ disc.input[2] = [teeTime |-> <<8, 0>>, availPlayers |-> 4]
    /\ disc.result = "available"

\* C12: the signal navigateAndCaptureApiResponse returns is the
\* classification of the first matching response that arrives within the
\* bound, and timeout if none arrives within it; a later matching response,
\* or one that arrives or completes after the bound, never determines or
\* changes it.  Read in the code's favour: the signal is timeout or the first
\* response's classification, and the latter only if that response arrived
\* before the timer fired.  (A first response whose body fails to parse has
\* no classification and is left out.)
C12_FirstResponseDecides ==
    (cap.phase = "returned" /\ cap.firstKind # "throw") =>
        /\ cap.result \in {"timeout", cap.firstKind}
        /\ cap.result # "timeout" => cap.firstInBound

\* a policy state with the secondary signal of its last cycle left out
WithoutApi(p) == [p EXCEPT !.last.api = "any"]

\* C13: the near-horizon policy returns a non-empty slot list only from a
\* cycle in which the classifier returned ready and slot discovery found
\* slots; an available secondary signal by itself never yields slots, and
\* no secondary value other than all-booked changes what a cycle does.
C13_SlotsOnlyFromReadyDom ==
    pol.kind = "3day" =>
        /\ (pol.done /\ pol.slots # << >>) =>
              /\ pol.last.state = "ready"
              /\ pol.last.found > 0
              /\ Len(pol.slots) = pol.last.found
        /\ ~pol.done =>
              \A api \in APIResult \ {"all-booked"} : \A d \in DomEnvs :
                 \A random \in RandomSamples :
                    WithoutApi(cycle3Day(pol, api, d.state, d.found, random))
                      = WithoutApi(cycle3Day(pol, "timeout", d.state, d.found,
                                             random))

C13_Witness ==
    /\ pol.kind = "3day"
    /\ pol.cycles = 2
    /\ pol.last.api = "available"
    /\ pol.last.state = "ready"
    /\ pol.last.found = 0
    /\ ~pol.done
    /\ pol.slots = << >>

\* C14 as stated: all-booked on 11 consecutive attempts stops the
\* near-horizon policy with an empty result before the attempt cap; an
\* all-booked signal at attempt index 0 to 10 never stops it; past that an
\* all-booked signal ends it at once, with no DOM check in that cycle.
C14_ElevenAllBookedStop ==
    pol.kind = "3day" =>
        /\ pol.booked >= 11 =>
              pol.done /\ pol.slots = << >> /\ pol.cycles <= maxRetries
        /\ (pol.last.api = "all-booked" /\ pol.last.attempt <= 10) =>
              /\ pol.last.state # "none"
              /\ pol.done => pol.slots # << >>
        /\ (pol.last.api = "all-booked" /\ pol.last.attempt > 10) =>
              pol.done /\ pol.slots = << >> /\ pol.last.state = "none"

\* C14 as amended: an all-booked signal at an attempt index above 10 ends
\* the policy at once with an empty result and no DOM check in that cycle,
\* so 12 consecutive all-booked attempts from the start stop it before the
\* attempt cap; an all-booked signal at attempt index 0 to 10 never stops
\* it, so 11 consecutive ones from the start do not.
C14_AllBookedPastMinimumStops ==
    pol.kind = "3day" =>
        /\ pol.booked >= 12 =>
              pol.done /\ pol.slots = << >>
        /\ (pol.booked = pol.cycles /\ pol.cycles >= 12) =>
              pol.cycles = 12 /\ pol.cycles < maxRetries
        /\ (pol.last.api = "all-booked" /\ pol.last.attempt <= 10) =>
              /\ pol.last.state # "none"
              /\ pol.done => pol.slots # << >>
        /\ (pol.last.api = "all-booked" /\ pol.last.attempt > 10) =>
              pol.done /\ pol.slots = << >> /\ pol.last.state = "none"

C14_Witness ==
    /\ pol.kind = "3day"
    /\ pol.booked = 12
    /\ pol.cycles = 12
    /\ pol.last.attempt = 11
    /\ pol.done
    /\ pol.slots = << >>

\* C15: in the far-horizon policy, when the classifier returns ready and
\* discovery finds zero slots, the policy returns an empty list at once,
\* without reloading the view and without any further observation.
C15_ReadyEmptyReturnsAtOnce ==
    (pol.kind = "30day" /\ pol.last.state = "ready" /\ pol.last.found = 0) =>
        /\ pol.done
        /\ pol.slots = << >>
        /\ ~pol.last.reloaded

\* C16 as stated: both policies terminate, each performs at most maxRetries
\* observation cycles and returns an empty list if no slots were discovered
\* by then.
C16_AtMostMaxRetriesCycles ==
    /\ [](pol.cycles <= maxRetries)
    /\ [](pol.attempt > maxRetries => pol.done /\ pol.slots = << >>)
    /\ <>[](pol.done)

\* C16 as amended: both policies terminate, each performs at most
\* maxRetries + 1 observation cycles (attempt indices 0 to maxRetries) and
\* returns an empty list if no slots were discovered by then.
C16_PoliciesTerminate ==
    /\ [](pol.cycles <= maxRetries + 1)
    /\ [](pol.attempt > maxRetries => pol.done /\ pol.slots = << >>)
    /\ <>[](pol.done)

C16_Witness ==
    /\ pol.kind = "3day"
    /\ pol.done
    /\ pol.cycles = maxRetries + 1
    /\ pol.last.attempt = maxRetries
    /\ pol.slots = << >>

\* C17: in the near-horizon policy the delay after a ready observation with
\* zero slots is exactly 1 s, 5 s, 10 s, 15 s, 30 s for attempt indices 0 to
\* 4, with no jitter, and for every later attempt 30 s plus a jitter in
\* [0 s, 90 s): never below 30 s nor at or above 120 s.
C17_DelaySchedule ==
    (pol.kind = "3day" /\ pol.last.state = "ready" /\ pol.last.found = 0) =>
        LET a == pol.last.attempt
            d == pol.last.delay
        IN  /\ a = 0 => d = 1000
            /\ a = 1 => d = 5000
            /\ a = 2 => d = 10000
            /\ a = 3 => d = 15000
            /\ a = 4 => d = 30000
            /\ a >= 5 => 30000 <= d /\ d < 120000

C17_Witness ==
    /\ pol.kind = "3day"
    /\ pol.last.state = "ready"
    /\ pol.last.found = 0
    /\ pol.last.attempt = 5
    /\ pol.last.delay > 30000 + 89000

\* minutes since midnight of a formatted time
MinutesOf(time) == (time[1] * 10 + time[2]) * 60 + time[3] * 10 + time[4]

\* minutes since midnight of a row's 12-hour time
RowMinutes(t) == ((t[1] % 12) + (IF t[3] = "PM" THEN 12 ELSE 0)) * 60 + t[2]

\* C18: the slot list slot discovery returns is sorted by normalized HH:MM
\* time descending; slots with identical times stay adjacent and precede all
\* earlier times.
C18_SlotsSortedDescending ==
    pc = "discovered" =>
        \A a, b \in 1..Len(disc.result) :
            a < b => MinutesOf(disc.result[a].time) >= MinutesOf(disc.result[b].time)

C18_Witness ==
    /\ pc = "discovered"
    /\ Len(disc.result) = 3
    /\ disc.input[1].time = <<8, 0, "AM">>
    /\ disc.input[2].time = <<1, 0, "PM">>
    /\ disc.input[3].time = <<1, 0, "PM">>
    /\ disc.result[1].time = <<1, 3, 0, 0>>
    /\ disc.result[2].time = <<1, 3, 0, 0>>
    /\ disc.result[3].time = <<0, 8, 0, 0>>

\* the rows that have capacity 4 and a time in the inclusive window
QualifyingRows ==
    {k \in 1..Len(disc.input) :
        /\ disc.input[k].avail = 4
        /\ disc.input[k].time # NoRowTime
        /\ RowMinutes(disc.input[k].time) >= disc.timeRange.start[1] * 60
                                              + disc.timeRange.start[2]
        /\ RowMinutes(disc.input[k].time) <= disc.timeRange.end[1] * 60
                                              + disc.timeRange.end[2]}

\* C19: slot discovery returns exactly the rendered rows whose remaining
\* capacity is 4 and whose time lies in the requested window, both ends
\* included: one slot per such row, numbered in row order, with the row's
\* time, and no other slot.
C19_ExactlyFullRowsInWindow ==
    pc = "discovered" =>
        /\ Len(disc.result) = Cardinality(QualifyingRows)
        /\ \A k \in QualifyingRows :
              LET rank == Cardinality({j \in QualifyingRows : j < k})
              IN  \E a \in 1..Len(disc.result) :
                     /\ disc.result[a].id = rank
                     /\ MinutesOf(disc.result[a].time)
                           = RowMinutes(disc.input[k].time)

C19_Witness ==
    /\ pc = "discovered"
    /\ Len(disc.input) = 3
    /\ disc.input[1] = [time |-> <<8, 0, "AM">>, avail |-> 4]
    /\ disc.input[2] = [time |-> <<1, 0, "PM">>, avail |-> 4]
    /\ disc.input[3] = [time |-> <<1, 1, "PM">>, avail |-> 4]
    /\ Len(disc.result) = 2
    /\ disc.result[1] = [time |-> <<1, 3, 0, 0>>, id |-> 1]
    /\ disc.result[2] = [time |-> <<0, 8, 0, 0>>, id |-> 0]

C21_NoWriteBeforeEnd ==
    /\ pc # "done" => file = startFile
    /\ file # startFile =>
          /\ pc = "done"
          /\ \A id \in Range(todayRequests) :
                req[id].status \in Terminal /\ hist[id].returned

C21_Witness ==
    /\ pc = "booking"
    /\ i = 2
    /\ req[todayRequests[1]].status = "success"
    /\ startFile.bookingRequests # << >>
    /\ file = startFile

\* the eligible requests whose status is success
Succeeded == {k \in 1..Len(todayRequests) : req[todayRequests[k]].status = "success"}

\* C22: the success count reported at the end of a run (processed_count)
\* equals the number of eligible requests whose final status is success.
C22_CountIsSuccesses ==
    pc = "done" => outputs = Cardinality(Succeeded)

C22_Witness ==
    /\ pc = "done"
    /\ Len(todayRequests) = 2
    /\ req[todayRequests[1]].status = "error"
    /\ req[todayRequests[1]].bookedTime # "none"
    /\ req[todayRequests[2]].status = "success"
    /\ outputs = 1

\* the UTC instant of the target wall-clock time on the zone's current date
TargetInstant ==
    ((slp.now + slp.offset) \div MinutesPerDay) * MinutesPerDay
        + slp.hour * 60 + slp.minute - slp.offset

\* C23: for every timezone offset and every target hour/minute,
\* sleepUntilTimeInZone resumes no earlier than the UTC instant of that
\* wall-clock time on the current calendar date of the zone, and resumes
\* without waiting when that instant is not after now.
C23_ResumesAtOrAfterTarget ==
    slp.promise # "pending" =>
        IF TargetInstant <= slp.now
        THEN slp.settledAt = slp.now
        ELSE slp.settledAt >= TargetInstant

\* C24: when the primary offset computation fails, the wait falls back to
\* the same-local-day computation and, if the fallback succeeds, completes
\* normally after the fallback delay; the error reaches the caller only
\* when the fallback fails too.
C24_FallbackCompletesNormally ==
    /\ (slp.phase = "returned" /\ slp.primaryFailed /\ slp.fallback = "ok") =>
          /\ slp.promise = "resolved"
          /\ slp.settledAt >= slp.now + slp.delay
    /\ slp.promise = "rejected" => slp.primaryFailed /\ slp.fallback = "throw"

\* the primary computation, when it does not fail, waits as C23 says
SleepPrimarySound ==
    (slp.promise # "pending" /\ ~slp.primaryFailed) =>
        /\ slp.promise = "resolved"
        /\ IF TargetInstant <= slp.now
           THEN slp.settledAt = slp.now
           ELSE slp.settledAt >= TargetInstant


\* the ids of a persisted collection
FileIds(records) == {records[k].id : k \in 1..Len(records)}

\* every entry of the pending collection of a queue file is pending
AllPending(f) ==
    \A k \in 1..Len(f.bookingRequests) : f.bookingRequests[k].status = "pending"

C27_ThirtyDaysAheadSelected ==
    pc # "start" =>
        \A id \in Range(bookingRequests) :
            (req[id].status = "pending" /\ req[id].playDate = AddDays(today, 30))
                => id \in Range(todayRequests)


\* the policy of a request's own horizon
OwnPolicy(id) ==
    IF isWithin3Days(req[id].playDate, today) THEN "3day"
    ELSE IF req[id].playDate = thirtyDaysString(today) THEN "30day"
    ELSE "none"

\* C28: each eligible request is processed with the policy of its own
\* horizon, the near-horizon policy iff today <= playDate <= today + 3 days
\* and the far-horizon policy iff playDate is the far-horizon date,
\* whatever its position in the processing order.
C28_PolicyOfOwnHorizon ==
    \A id \in DOMAIN hist :
        hist[id].policy # "none" => hist[id].policy = OwnPolicy(id)


\* C29: if the acquisition protocol returned a booked slot for a request,
\* the request ends with status success and with that slot's time as its
\* bookedTime, even when the diagnostics capture that follows throws; a
\* request that ends failed or error carries no bookedTime.
C29_BookedEndsSuccess ==
    JustReturned =>
        /\ bk.bookedSlot # NoSlot =>
              /\ req[LastId].status = "success"
              /\ req[LastId].bookedTime = bk.bookedSlot.time
        /\ req[LastId].status \in {"failed", "error"} =>
              req[LastId].bookedTime = "none"


\* C30 as stated: navigateAndCaptureApiResponse returns only after the
\* view-load wait has finished and the capture has delivered a
\* classification or hit its timeout, and never while a matching response is
\* still being parsed and classified.
C30_ReturnsAfterJoinNothingInFlight ==
    cap.phase = "returned" =>
        /\ cap.nav = "loaded"
        /\ cap.resolved
        /\ cap.pending = {}

\* C30 as amended: the function returns only after the view-load wait has
\* finished and the capture promise is resolved, by a handler run that
\* finished or by the timeout; a matching response can still be in parsing
\* at the return, but only when the timeout has fired or when another
\* response of the same navigation has already been handled.
C30_ReturnsAfterJoin ==
    cap.phase = "returned" =>
        /\ cap.nav = "loaded"
        /\ cap.resolved
        /\ cap.timer \in {"fired", "cleared"}
        /\ cap.timer = "cleared" => cap.arrived > Cardinality(cap.pending)
        /\ cap.pending # {} => (cap.timer = "fired" \/ cap.arrived >= 2)

C30_Witness ==
    /\ cap.phase = "returned"
    /\ cap.timer = "fired"
    /\ cap.pending # {}
    /\ cap.arrived = 1
    /\ cap.firstInBound
    /\ cap.result = "timeout"


\* C31: in the far-horizon policy a no-results or loading observation is
\* followed by a short fixed delay and another observation of the same
\* view, with no reload and no navigation; a too-early observation is
\* followed by a short fixed delay and a reload of the view.  Each of these
\* steps consumes exactly one attempt of the budget.
C31_FarHorizonWaitsAndReloads ==
    pol.kind = "30day" =>
        /\ pol.last.state \in {"no-results", "loading"} =>
              /\ pol.last.delay = 500
              /\ ~pol.last.reloaded
              /\ pol.view = pol.last.view
              /\ pol.checks >= 1
              /\ pol.attempt = pol.last.attempt + 1
        /\ pol.last.state = "too-early" =>
              /\ pol.last.delay = 300
              /\ pol.last.reloaded
              /\ pol.view = pol.last.view + 1
              /\ pol.checks = 0
              /\ pol.attempt = pol.last.attempt + 1

C31_Witness ==
    /\ pol.kind = "30day"
    /\ pol.last.state = "no-results"
    /\ pol.view = 1
    /\ pol.checks = 2
    /\ pol.attempt = 3
    /\ ~pol.done

\* C32: in the near-horizon policy every DOM classification is preceded, in
\* the same cycle, by a fresh navigation with a capture of the secondary
\* signal, also in the cycles that follow a too-early, no-results or loading
\* observation; the classifier never runs twice on the view of one
\* navigation, and the view handle returned is that of the last navigation.
C32_NavigationBeforeEveryCheck ==
    pol.kind = "3day" =>
        /\ pol.view = pol.cycles
        /\ pol.checks <= 1
        /\ pol.last.state # "none" =>
              /\ pol.last.view = pol.view
              /\ pol.last.api \in APIResult
              /\ pol.checks = 1
        /\ pol.done => pol.frame = pol.view

C32_Witness ==
    /\ pol.kind = "3day"
    /\ pol.cycles = 3
    /\ pol.last.state = "no-results"
    /\ pol.last.view = 3
    /\ pol.checks = 1
    /\ ~pol.done

\* C33: in the far-horizon policy a ready observation with zero slots costs
\* three attempts of the budget, so with the cap of 30 at most 11 such
\* reload cycles occur in one invocation, and the page-state checks of one
\* invocation never exceed 31.
C33_ReadyEmptyCostsThree ==
    pol.kind = "30day" =>
        /\ (pol.last.state = "ready" /\ pol.last.found = 0) =>
              /\ pol.attempt = pol.last.attempt + 3
              /\ pol.last.reloaded
        /\ pol.empties <= 11
        /\ pol.cycles <= 31

C33_Witness ==
    /\ pol.kind = "30day"
    /\ pol.empties = 11
    /\ pol.cycles = 11
    /\ pol.last.attempt = 30
    /\ pol.done
    /\ pol.slots = << >>


\* C38: under both policies the candidate slots handed to the acquisition
\* protocol were discovered on the very view handle that is handed over
\* with them, and that view was neither navigated nor reloaded between
\* their discovery and the first acquisition attempt.
C38_SlotsFromTheViewHandedOver ==
    /\ (pol.kind # "none" /\ pol.done /\ pol.slots # << >>) =>
          /\ pol.last.state = "ready"
          /\ Len(pol.slots) = pol.last.found
          /\ pol.frame = pol.last.view
          /\ pol.view = pol.last.view
    /\ (pol.kind # "none" /\ bk # NoBooking) =>
          /\ bk.slots = pol.slots
          /\ bk.slots # << >>
          /\ pol.booking = pol.last.view
          /\ pol.view = pol.booking

C38_Witness ==
    /\ pol.kind = "30day"
    /\ bk # NoBooking
    /\ Len(bk.slots) = 2
    /\ bk.calls = << >>
    /\ pol.booking = 2
    /\ pol.cycles = 4


\* the first full hour of the Eastern wall clock after the instant of the call
NextHourInstant == ((slp.now + slp.offset) \div 60 + 1) * 60 - slp.offset

\* C39: in a scheduled run the wait is called with the top of the next
\* Eastern hour as its target, that target is still ahead at the call, and
\* request processing does not start before the next hour boundary, also
\* when the run reaches the wait between 23:00 and 23:59 Eastern.
C39_GateHoldsUntilNextHour ==
    slp.phase \in {"called", "waiting", "returned"} =>
        /\ TargetInstant = NextHourInstant
        /\ TargetInstant > slp.now
        /\ slp.promise = "resolved" => slp.settledAt >= NextHourInstant

\* away from the last hour of the Eastern day the wait is as C39 says
GateSoundBeforeLastHour ==
    (slp.phase \in {"called", "waiting", "returned"}
        /\ nextHourAt(slp.now, slp.offset) # 0) =>
        /\ TargetInstant = NextHourInstant
        /\ TargetInstant > slp.now
        /\ slp.promise = "resolved" => slp.settledAt >= NextHourInstant


C36_CaptureOnEveryPath ==
    (JustReturned /\ takeScreenshots) => cur.shots >= 1

\* where screenshots are on, every request that does not end in error has
\* had one taken
CaptureOnPathsWithoutError ==
    (JustReturned /\ takeScreenshots /\ req[LastId].status # "error") =>
        cur.shots >= 1


\* the ids of the queue file the run started with
StartIds ==
    FileIds(startFile.bookingRequests) \cup FileIds(startFile.processedRequests)

\* C37: the queue update at the end of a run loses no request: every
\* request that was in the pending or the processed collection when the
\* run started is in exactly one of the two afterwards, the entries of the
\* pending collection that were not eligible because their status was
\* already not pending included.
C37_NoRequestLost ==
    pc = "done" =>
        \A id \in StartIds :
            (id \in FileIds(file.bookingRequests))
                # (id \in FileIds(file.processedRequests))

\* a request of the pending collection whose status was pending at the
\* start is in exactly one collection after the run
PendingOnesKept ==
    pc = "done" =>
        \A k \in 1..Len(startFile.bookingRequests) :
            startFile.bookingRequests[k].status = "pending" =>
                LET id == startFile.bookingRequests[k].id
                IN  (id \in FileIds(file.bookingRequests))
                        # (id \in FileIds(file.processedRequests))

====
